---- MODULE Spec2Model ----
(***************************************************************************)
(* ansible_rulebook/app.py: run(), spawn_sources() and the shutdown        *)
(* sequence, as a state machine.  run() is one coroutine on a cooperative  *)
(* event loop: the source tasks and the feedback task take steps only      *)
(* while run() is suspended in an await that yields (run_rulesets,         *)
(* asyncio.wait, asyncio.gather).                                          *)
(***************************************************************************)
EXTENDS Integers, Sequences, FiniteSets, TLC

\* ---------------------------------------------------------------- bounds
MaxRulesets == 2      \* rulesets of a rulebook (run lifecycle)
MaxTasks == 2         \* source declarations of a rulebook (run lifecycle)
MaxLog == 1           \* entries the engine leaves unread in the event log
MaxTimeout == 1       \* settings.max_feedback_timeout, in clock ticks
MaxGen == 2           \* generations of run() (hot-reloads + 1)
MaxLiveTasks == 1     \* source declarations of a rulebook (SpecLive)
MaxSpawnRulesets == 3 \* rulesets handed to spawn_sources (SpecSpawn)
MaxSpawnSources == 3  \* sources of one ruleset (SpecSpawn)
MaxActions == 2       \* actions of the loaded rules (SpecStartup)

VARIABLES
    parsed_args,          \* the command-level arguments and what they load
    timer,                \* ticks left before asyncio.wait times out
    pc,                   \* the line run() stands at
    gen,                  \* the generation of run() (1 + number of reloads)
    event_log,            \* [kind, items]: asyncio.Queue() or NullQueue
    tasks,                \* run()'s list of task handles
    ruleset_queues,       \* the RuleSetQueue pairs spawn_sources returned
    queue,                \* queue id -> [maxsize, items]: the asyncio.Queue objects
    nqueues,              \* queue objects created so far (object identity)
    qbase,                \* queue objects that existed when this generation began
    feedback_task,        \* index of the feedback task in tasks, 0 for None
    should_reload,        \* what run_rulesets returned
    results,              \* what asyncio.gather returned
    error_found,          \* run()'s error_found
    close_count,          \* calls of job_template_runner.close_session()
    observed,             \* the events the Driver took, in order
    steps,                \* the shutdown steps this generation has executed
    outcomes,             \* the outcome of each finished generation
    leftover,             \* tasks of an earlier generation not terminated and
                          \* awaited once when the next generation began
    startup_args,         \* the StartupArgs of this generation
    startup_steps,        \* the startup calls this generation has made
    environ,              \* the generation whose env_vars os.environ holds
    exc                   \* the exception that left run(), "" for none

vars == <<parsed_args, timer, pc, gen, event_log, tasks,
          ruleset_queues, queue, nqueues, qbase, feedback_task, should_reload,
          results, error_found, close_count, observed, steps, outcomes,
          leftover, startup_args, startup_steps, environ, exc>>

\* What only the startup and the exits of run() write.
startup_vars == <<startup_args, startup_steps, environ, exc>>

\* ------------------------------------------------------------ inputs
RECURSIVE SumSeq(_)
SumSeq(s) == IF s = <<>> THEN 0 ELSE Head(s) + SumSeq(Tail(s))

SeqsUpTo(S, n) == UNION {[1..k -> S] : k \in 0..n}

\* A source declaration: the plugin produces `events` in this order, and
\* with `repeat` starts over after the last one (a polling source).
Source(name, events, repeat) ==
    [name |-> name, events |-> events, repeat |-> repeat]

\* A rulebook whose ruleset r has shape[r] sources, each producing its own
\* event again and again until it exits, fails or is cancelled.
Rulebook(shape) ==
    [r \in 1..Len(shape) |->
        [name |-> r,
         sources |-> [s \in 1..shape[r] |->
                        Source(10 * r + s, <<10 * r + s>>, TRUE)],
         rules |-> <<>>]]

\* An action of a rule: its kind (action.action) and whether its arguments
\* (action.action_args) pass the decryptability check.
RuleAction(kind, args) == [action |-> kind, action_args |-> args]

Rule(name, actions) == [name |-> name, actions |-> actions]

\* The rulesets with `rules` as the rules of the first ruleset.
WithRules(rulesets, rules) ==
    [r \in DOMAIN rulesets |->
        IF r = 1 THEN [rulesets[r] EXCEPT !.rules = rules] ELSE rulesets[r]]

\* The command-level arguments of a run that configures no inventory and no
\* controller and is not in worker mode.
ParsedArgs(rulesets, ws) ==
    [rulesets |-> rulesets, websocket_url |-> ws, worker |-> FALSE,
     id |-> "", inventory |-> "", controller_url |-> "",
     controller_token |-> "", vaulted |-> FALSE]

\* What the startup reads from outside the process: whether the workload
\* request is answered, whether the rulebook is found, whether the variables
\* it loads pass the decryptability check, whether get_config() answers.
StartupEnv ==
    [workload : BOOLEAN, rulebook : BOOLEAN, variables : BOOLEAN,
     probe : BOOLEAN]

\* ---------------------------------------------------------- asyncio.Queue
NullQueue == [kind |-> "NullQueue", items |-> <<>>]

NewQueue(maxsize) == [maxsize |-> maxsize, items |-> <<>>]

\* asyncio.Queue.full(): a maxsize of 0 means unbounded.
QueueFull(q) == q.maxsize > 0 /\ Len(q.items) >= q.maxsize

QueuePutNowait(q, x) == [q EXCEPT !.items = Append(@, x)]

QueueGetNowait(q) == [q EXCEPT !.items = Tail(@)]

\* event_log.put(x): asyncio.Queue() keeps x, NullQueue.put drops it.
EventLogPut(log, x) ==
    IF log.kind = "Queue" THEN [log EXCEPT !.items = Append(@, x)] ELSE log

\* ------------------------------------------------------------ spawn_sources
create_task(kind, g, r, s, q) ==
    [kind |-> kind, gen |-> g, ruleset |-> r, source |-> s, queue |-> q,
     st |-> "running", pos |-> 0, awaited |-> 0]

RuleSetQueue(r, q) == [ruleset |-> r, queue |-> q]

\* Faulty variant: source_queue = asyncio.Queue(): no maxsize, an unbounded queue.
SourceQueueUnbounded == NewQueue(0)

\* source_queue = asyncio.Queue(1)
SourceQueue == NewQueue(1)

\* Faulty variant: the queue is created inside the inner loop, one per source; the
\* pair of the ruleset gets the last one created.
spawn_ruleset_queue_per_source(acc, ruleset, r, g) ==
    LET n == Len(ruleset.sources)
    IN  [tasks |-> acc.tasks \o
                   [s \in 1..n |->
                        create_task("source", g, r, s, acc.nqueues + s)],
         ruleset_queues |-> Append(acc.ruleset_queues,
                                   RuleSetQueue(r, acc.nqueues + n)),
         queue |-> [i \in DOMAIN acc.queue \cup (acc.nqueues + 1)..(acc.nqueues + n) |->
                        IF i > acc.nqueues THEN SourceQueue ELSE acc.queue[i]],
         nqueues |-> acc.nqueues + n]

\* Faulty variant: the queue is created before the outer loop, one for all rulesets.
spawn_ruleset_one_queue(acc, ruleset, r, g) ==
    LET q == IF acc.ruleset_queues = <<>> THEN acc.nqueues + 1 ELSE acc.nqueues
    IN  [tasks |-> acc.tasks \o
                   [s \in 1..Len(ruleset.sources) |->
                        create_task("source", g, r, s, q)],
         ruleset_queues |-> Append(acc.ruleset_queues, RuleSetQueue(r, q)),
         queue |-> [i \in DOMAIN acc.queue \cup {q} |->
                        IF i \in DOMAIN acc.queue THEN acc.queue[i] ELSE SourceQueue],
         nqueues |-> q]

\* Faulty variant: tasks.append(task) is dedented out of the inner loop: only the
\* last task of a ruleset is kept.
spawn_ruleset_last_task(acc, ruleset, r, g) ==
    LET q == acc.nqueues + 1
        n == Len(ruleset.sources)
    IN  [tasks |-> acc.tasks \o
                   (IF n = 0 THEN <<>> ELSE <<create_task("source", g, r, n, q)>>),
         ruleset_queues |-> Append(acc.ruleset_queues, RuleSetQueue(r, q)),
         queue |-> [i \in DOMAIN acc.queue \cup {q} |->
                        IF i = q THEN SourceQueue ELSE acc.queue[i]],
         nqueues |-> q]

\* One iteration of the outer loop: the queue is created once, before the
\* ruleset's sources are iterated; every source gets a task on that queue.
spawn_ruleset(acc, ruleset, r, g) ==
    LET q == acc.nqueues + 1
    IN  [tasks |-> acc.tasks \o
                   [s \in 1..Len(ruleset.sources) |->
                        create_task("source", g, r, s, q)],
         ruleset_queues |-> Append(acc.ruleset_queues, RuleSetQueue(r, q)),
         queue |-> [i \in DOMAIN acc.queue \cup {q} |->
                        IF i = q THEN SourceQueue ELSE acc.queue[i]],
         nqueues |-> q]

\* tasks = []; ruleset_queues = []; for ruleset in rulesets: ...
spawn_sources(rulesets, nq, g) ==
    LET F[k \in 0..Len(rulesets)] ==
            IF k = 0
            THEN [tasks |-> <<>>, ruleset_queues |-> <<>>,
                  queue |-> <<>>, nqueues |-> nq]
            ELSE spawn_ruleset(F[k - 1], rulesets[k], k, g)
    IN  F[Len(rulesets)]

\* ------------------------------------------------------------ tasks
Done(t) == t.st \in {"ok", "failed", "cancelled"}

SourceIdx == {i \in DOMAIN tasks : tasks[i].kind = "source"}

SourceDecl(t) == parsed_args.rulesets[t.ruleset].sources[t.source]

\* The event the plugin of task t puts next, and its position after that put.
NextEvent(t) == SourceDecl(t).events[t.pos + 1]

NextPos(t) ==
    IF t.pos + 1 = Len(SourceDecl(t).events) /\ SourceDecl(t).repeat
    THEN 0
    ELSE t.pos + 1

HasNext(t) == t.pos < Len(SourceDecl(t).events)

\* run() is suspended in an await that yields to the event loop.
TasksMayRun == pc \in {"driver", "waiting", "gather"}

\* Faulty variant: the cancellation is recorded on finished tasks too.
TaskCancelAlways(t) == [t EXCEPT !.st = "cancelling"]

\* Task.cancel(): a request on a pending task, nothing on a finished one.
TaskCancel(t) == IF Done(t) THEN t ELSE [t EXCEPT !.st = "cancelling"]

\* What gather(return_exceptions=True) yields for a finished task.
TaskResult(t) ==
    CASE t.st = "ok" -> "None"
      [] t.st = "failed" -> "Exception"
      [] t.st = "cancelled" -> "CancelledError"

\* isinstance(result, Exception): CancelledError derives from BaseException.
IsException(result) == result = "Exception"

IsCancelledError(result) == result = "CancelledError"

\* Faulty variant: if isinstance(result, BaseException)
IsFailureAnyRaise(result) == result # "None"

\* if isinstance(result, Exception) and not isinstance(result, CancelledError)
IsFailure(result) == IsException(result) /\ ~IsCancelledError(result)

\* Faulty variant: elif should_reload is None: a requested reload is not seen.
RunOutcomeReloadUnseen(err, reload) ==
    IF err THEN "raised" ELSE "returned"

\* Faulty variant: the reload is tested before the failure.
RunOutcomeReloadFirst(err, reload) ==
    IF reload = TRUE THEN "reload" ELSE IF err THEN "raised" ELSE "returned"

\* if error_found: raise / elif should_reload is True: run() / else return
RunOutcome(err, reload) ==
    IF err THEN "raised" ELSE IF reload = TRUE THEN "reload" ELSE "returned"

\* What a generation leaves behind when it ends with outcome o.
Summary(o) ==
    [outcome |-> o,
     error_found |-> error_found,
     should_reload |-> should_reload,
     failures |-> Cardinality({i \in DOMAIN tasks : tasks[i].st = "failed"}),
     spawned |-> Len(tasks),
     joined |-> Cardinality({i \in DOMAIN tasks :
                                Done(tasks[i]) /\ tasks[i].awaited = 1}),
     closed |-> close_count]

\* ------------------------------------------------------------ startup
INVENTORY_ACTIONS == {"run_playbook", "run_module"}

CONTROLLER_ACTIONS == {"run_job_template", "run_workflow_template"}

ActionKinds == INVENTORY_ACTIONS \cup CONTROLLER_ACTIONS \cup {"debug"}

\* StartupArgs(): nothing configured.
StartupArgs ==
    [rulesets |-> <<>>, variables |-> "plain", inventory |-> "",
     controller_url |-> "", controller_token |-> "", check_vault |-> FALSE,
     check_controller_connection |-> FALSE]

\* The outcome of a startup call: the exception it raised ("" for none), the
\* StartupArgs it leaves and the calls it made.
StartupResult(e, sa, st) == [exc |-> e, startup_args |-> sa, steps |-> st]

\* decryptable(value): raises on content that cannot be decrypted.
decryptable(value) == value # "vault_bad"

\* os.path.exists(path): the paths that exist on disk.
ExistingPaths == {"inventory.yml"}

path_exists(path) == path \in ExistingPaths

\* validate_url(url, "controller")
ValidUrls == {"https://controller"}

validate_url(url) == url \in ValidUrls

\* Lines 90-117.  Worker mode takes the StartupArgs from request_workload:
\* the bundle the server holds is described by the same fields of the
\* arguments as a local configuration.
load_startup_args(args, env) ==
    LET loaded == [StartupArgs EXCEPT
                      !.rulesets = args.rulesets,
                      !.variables = IF env.variables THEN "plain"
                                                     ELSE "vault_bad",
                      !.inventory = args.inventory,
                      !.controller_url = args.controller_url,
                      !.controller_token = args.controller_token,
                      !.check_vault = args.vaulted]
    IN  IF args.worker /\ args.websocket_url /\ args.id # ""
        THEN IF env.workload
             THEN StartupResult("", loaded, <<"request_workload">>)
             ELSE StartupResult("WebSocketExchangeException", StartupArgs,
                                <<"request_workload">>)
        ELSE IF env.rulebook
             THEN StartupResult("", loaded, <<"load_rulebook">>)
             ELSE StartupResult("RulebookNotFoundException", StartupArgs,
                                <<"load_rulebook">>)

\* The actions in the order validate_actions visits them: for ruleset in
\* rulesets: for rule in ruleset.rules: for action in rule.actions.
RECURSIVE RuleActions(_)
RuleActions(rules) ==
    IF rules = <<>> THEN <<>>
    ELSE Head(rules).actions \o RuleActions(Tail(rules))

RECURSIVE AllActions(_)
AllActions(rulesets) ==
    IF rulesets = <<>> THEN <<>>
    ELSE RuleActions(Head(rulesets).rules) \o AllActions(Tail(rulesets))

\* Faulty variant: the decryptability of the arguments is tested first, before
\* the inventory and the controller of the action.
validate_action_vault_first(action, sa) ==
    LET sa1 == IF action.action \in CONTROLLER_ACTIONS
               THEN [sa EXCEPT !.check_controller_connection = TRUE]
               ELSE sa
    IN  IF sa1.check_vault /\ ~decryptable(action.action_args)
        THEN StartupResult("VaultDecryptException", sa1, <<>>)
        ELSE IF action.action \in INVENTORY_ACTIONS /\ sa1.inventory = ""
        THEN StartupResult("InventoryNeededException", sa1, <<>>)
        ELSE IF action.action \in INVENTORY_ACTIONS /\ ~path_exists(sa1.inventory)
        THEN StartupResult("InventoryNotFound", sa1, <<>>)
        ELSE IF /\ action.action \in CONTROLLER_ACTIONS
                /\ sa1.controller_url = ""
                /\ sa1.controller_token = ""
        THEN StartupResult("ControllerNeededException", sa1, <<>>)
        ELSE StartupResult("", sa1, <<>>)

\* Faulty variant: the existence of the inventory path is tested before its
\* presence, so that a missing inventory is reported as not found.
validate_action_exists_first(action, sa) ==
    LET sa1 == IF action.action \in CONTROLLER_ACTIONS
               THEN [sa EXCEPT !.check_controller_connection = TRUE]
               ELSE sa
    IN  IF action.action \in INVENTORY_ACTIONS /\ ~path_exists(sa1.inventory)
        THEN StartupResult("InventoryNotFound", sa1, <<>>)
        ELSE IF action.action \in INVENTORY_ACTIONS /\ sa1.inventory = ""
        THEN StartupResult("InventoryNeededException", sa1, <<>>)
        ELSE IF /\ action.action \in CONTROLLER_ACTIONS
                /\ sa1.controller_url = ""
                /\ sa1.controller_token = ""
        THEN StartupResult("ControllerNeededException", sa1, <<>>)
        ELSE IF sa1.check_vault /\ ~decryptable(action.action_args)
        THEN StartupResult("VaultDecryptException", sa1, <<>>)
        ELSE StartupResult("", sa1, <<>>)

\* Lines 283-310: the body of the loops for one action; the first check that
\* fails raises.
validate_action(action, sa) ==
    LET sa1 == IF action.action \in CONTROLLER_ACTIONS
               THEN [sa EXCEPT !.check_controller_connection = TRUE]
               ELSE sa
    IN  IF action.action \in INVENTORY_ACTIONS /\ sa1.inventory = ""
        THEN StartupResult("InventoryNeededException", sa1, <<>>)
        ELSE IF action.action \in INVENTORY_ACTIONS /\ ~path_exists(sa1.inventory)
        THEN StartupResult("InventoryNotFound", sa1, <<>>)
        ELSE IF /\ action.action \in CONTROLLER_ACTIONS
                /\ sa1.controller_url = ""
                /\ sa1.controller_token = ""
        THEN StartupResult("ControllerNeededException", sa1, <<>>)
        ELSE IF sa1.check_vault /\ ~decryptable(action.action_args)
        THEN StartupResult("VaultDecryptException", sa1, <<>>)
        ELSE StartupResult("", sa1, <<>>)

\* Lines 279-310.
RECURSIVE validate_action_list(_, _)
validate_action_list(actions, sa) ==
    IF actions = <<>> THEN StartupResult("", sa, <<"validate_actions">>)
    ELSE LET r == validate_action(Head(actions), sa)
         IN  IF r.exc # ""
             THEN StartupResult(r.exc, r.startup_args, <<"validate_actions">>)
             ELSE validate_action_list(Tail(actions), r.startup_args)

validate_actions(sa) == validate_action_list(AllActions(sa.rulesets), sa)

\* Lines 120-121 and 275-276: decryptable(startup_args.variables)
validate_variables(sa) ==
    IF decryptable(sa.variables)
    THEN StartupResult("", sa, <<"validate_variables">>)
    ELSE StartupResult("VaultDecryptException", sa, <<"validate_variables">>)

\* Faulty variant: the loop over env_vars is left out, nothing is exported.
export_env_skipped(sa) == StartupResult("", sa, <<>>)

\* Lines 122-126: the substituted env_vars are written to os.environ.
export_env(sa) == StartupResult("", sa, <<"export_env">>)

\* Faulty variant: the URL is handed to the probe without validate_url.
validate_controller_params_unchecked(sa, env) ==
    IF sa.controller_url = ""
    THEN StartupResult("", sa, <<>>)
    ELSE IF ~env.probe
    THEN StartupResult("ControllerApiException", sa, <<"get_config">>)
    ELSE StartupResult("", sa, <<"get_config">>)

\* Lines 313-331.
validate_controller_params(sa, env) ==
    IF sa.controller_url = ""
    THEN StartupResult("", sa, <<>>)
    ELSE IF ~validate_url(sa.controller_url)
    THEN StartupResult("InvalidUrlException", sa, <<"validate_url">>)
    ELSE IF ~env.probe
    THEN StartupResult("ControllerApiException", sa,
                       <<"validate_url", "get_config">>)
    ELSE StartupResult("", sa, <<"validate_url", "get_config">>)

\* Lines 128-129: if startup_args.check_controller_connection: ...
check_controller(sa, env) ==
    IF sa.check_controller_connection
    THEN validate_controller_params(sa, env)
    ELSE StartupResult("", sa, <<>>)

\* r, followed by `next` when r raised nothing.
Then(r, next) ==
    IF r.exc # "" THEN r
    ELSE StartupResult(next.exc, next.startup_args, r.steps \o next.steps)

\* Lines 87-129 in their order: each call runs only when the calls before it
\* raised nothing.
startup(args, env) ==
    LET r1 == load_startup_args(args, env)
        r2 == Then(r1, validate_actions(r1.startup_args))
        r3 == Then(r2, validate_variables(r2.startup_args))
        r4 == Then(r3, export_env(r3.startup_args))
        r5 == Then(r4, check_controller(r4.startup_args, env))
    IN  r5

\* ------------------------------------------------------------ Init
Fresh ==
    /\ pc = "startup"
    /\ gen = 1
    /\ timer = 0
    /\ event_log = NullQueue
    /\ tasks = <<>>
    /\ ruleset_queues = <<>>
    /\ queue = <<>>
    /\ nqueues = 0
    /\ qbase = 0
    /\ feedback_task = 0
    /\ should_reload = FALSE
    /\ results = <<>>
    /\ error_found = FALSE
    /\ close_count = 0
    /\ observed = <<>>
    /\ steps = <<>>
    /\ outcomes = <<>>
    /\ leftover = {}
    /\ startup_args = StartupArgs
    /\ startup_steps = <<>>
    /\ environ = 0
    /\ exc = ""

Shapes == {sh \in SeqsUpTo(1..MaxTasks, MaxRulesets) : SumSeq(sh) <= MaxTasks}

\* The rules of the run lifecycle: one action that needs the inventory, one
\* that needs the controller.
LifecycleRules ==
    <<Rule(1, <<RuleAction("run_playbook", "plain"),
                RuleAction("run_job_template", "plain")>>)>>

\* The arguments of the run lifecycle: inventory and controller are
\* configured, so that the startup of a generation fails only by what it
\* finds outside the process.
LifecycleArgs(sh, ws) ==
    [ParsedArgs(WithRules(Rulebook(sh), LifecycleRules), ws) EXCEPT
        !.inventory = "inventory.yml",
        !.controller_url = "https://controller",
        !.controller_token = "token"]

Init ==
    /\ \E sh \in Shapes, ws \in BOOLEAN :
          parsed_args = LifecycleArgs(sh, ws)
    /\ Fresh

\* ------------------------------------------------------------ run()
\* Faulty variant: spawn_sources is called before the validation, so a startup
\* that fails leaves the tasks it spawned.
StartupSpawnFirst ==
    /\ pc = "startup"
    /\ \E env \in StartupEnv :
          \E r \in {startup(parsed_args, env)} :
              /\ startup_args' = r.startup_args
              /\ startup_steps' = r.steps
              /\ environ' = IF \E k \in DOMAIN r.steps : r.steps[k] = "export_env"
                            THEN gen
                            ELSE environ
              /\ exc' = r.exc
              /\ event_log' = IF r.exc = "" /\ parsed_args.websocket_url
                              THEN [kind |-> "Queue", items |-> <<>>]
                              ELSE NullQueue
              /\ pc' = IF r.exc = "" THEN "spawn" ELSE "startup_failed"
    /\ LET sp == spawn_sources(parsed_args.rulesets, nqueues, gen)
       IN  /\ tasks' = sp.tasks
           /\ ruleset_queues' = sp.ruleset_queues
           /\ queue' = sp.queue
           /\ nqueues' = sp.nqueues
    /\ UNCHANGED <<parsed_args, timer, gen, qbase, feedback_task,
                   should_reload, results, error_found, close_count, observed,
                   steps, outcomes, leftover>>

\* Lines 87-134: startup, ending with the creation of the event log; an
\* exception of a startup call leaves run() at once.
Startup ==
    /\ pc = "startup"
    /\ \E env \in StartupEnv :
          \E r \in {startup(parsed_args, env)} :
              /\ startup_args' = r.startup_args
              /\ startup_steps' = r.steps
              /\ environ' = IF \E k \in DOMAIN r.steps : r.steps[k] = "export_env"
                            THEN gen
                            ELSE environ
              /\ exc' = r.exc
              /\ event_log' = IF r.exc = "" /\ parsed_args.websocket_url
                              THEN [kind |-> "Queue", items |-> <<>>]
                              ELSE NullQueue
              /\ pc' = IF r.exc = "" THEN "spawn" ELSE "startup_failed"
    /\ UNCHANGED <<parsed_args, timer, gen, tasks, ruleset_queues,
                   queue, nqueues, qbase, feedback_task, should_reload, results,
                   error_found, close_count, observed, steps, outcomes,
                   leftover>>

\* Lines 136-142: tasks, ruleset_queues = spawn_sources(...)
SpawnSources ==
    /\ pc = "spawn"
    /\ LET sp == spawn_sources(parsed_args.rulesets, nqueues, gen)
       IN  /\ tasks' = sp.tasks
           /\ ruleset_queues' = sp.ruleset_queues
           /\ queue' = sp.queue
           /\ nqueues' = sp.nqueues
    /\ pc' = "feedback"
    /\ UNCHANGED <<startup_vars, parsed_args, timer, gen, event_log, qbase,
                   feedback_task, should_reload, results, error_found,
                   close_count, observed, steps, outcomes, leftover>>

\* Lines 146-151: the feedback task, when a websocket url is given.
CreateFeedback ==
    /\ pc = "feedback"
    /\ IF parsed_args.websocket_url
       THEN /\ tasks' = Append(tasks, create_task("feedback", gen, 0, 0, 0))
            /\ feedback_task' = Len(tasks) + 1
       ELSE UNCHANGED <<tasks, feedback_task>>
    /\ pc' = "driver"
    /\ UNCHANGED <<startup_vars, parsed_args, timer, gen, event_log,
                   ruleset_queues, queue, nqueues, qbase, should_reload, results,
                   error_found, close_count, observed, steps, outcomes,
                   leftover>>

\* ------------------------------------------------------------ source tasks
\* A source plugin, while run() is suspended: it puts its next event, exits,
\* or fails.  queue.put(event) on a queue that is not full returns at once.
SourcePut(i) ==
    /\ TasksMayRun
    /\ i \in SourceIdx
    /\ tasks[i].st = "running"
    /\ HasNext(tasks[i])
    /\ ~QueueFull(queue[tasks[i].queue])
    /\ queue' = [queue EXCEPT ![tasks[i].queue] =
                    QueuePutNowait(@, NextEvent(tasks[i]))]
    /\ tasks' = [tasks EXCEPT ![i].pos = NextPos(tasks[i])]
    /\ UNCHANGED <<startup_vars, parsed_args, timer, pc, gen, event_log,
                   ruleset_queues, nqueues, qbase, feedback_task, should_reload,
                   results, error_found, close_count, observed, steps,
                   outcomes, leftover>>

\* queue.put(event) on a full queue: the task suspends among the putters.
SourceBlock(i) ==
    /\ TasksMayRun
    /\ i \in SourceIdx
    /\ tasks[i].st = "running"
    /\ HasNext(tasks[i])
    /\ QueueFull(queue[tasks[i].queue])
    /\ tasks' = [tasks EXCEPT ![i].st = "blocked"]
    /\ UNCHANGED <<startup_vars, parsed_args, timer, pc, gen, event_log,
                   ruleset_queues, queue, nqueues, qbase, feedback_task,
                   should_reload, results, error_found, close_count, observed, steps, outcomes, leftover>>

\* A suspended put completes once the queue has room again.
SourceResume(i) ==
    /\ TasksMayRun
    /\ i \in SourceIdx
    /\ tasks[i].st = "blocked"
    /\ ~QueueFull(queue[tasks[i].queue])
    /\ queue' = [queue EXCEPT ![tasks[i].queue] =
                    QueuePutNowait(@, NextEvent(tasks[i]))]
    /\ tasks' = [tasks EXCEPT ![i].pos = NextPos(tasks[i]), ![i].st = "running"]
    /\ UNCHANGED <<startup_vars, parsed_args, timer, pc, gen, event_log,
                   ruleset_queues, nqueues, qbase, feedback_task, should_reload,
                   results, error_found, close_count, observed, steps,
                   outcomes, leftover>>

\* The plugin returns.
SourceExit(i) ==
    /\ TasksMayRun
    /\ i \in SourceIdx
    /\ tasks[i].st = "running"
    /\ tasks' = [tasks EXCEPT ![i].st = "ok"]
    /\ UNCHANGED <<startup_vars, parsed_args, timer, pc, gen, event_log,
                   ruleset_queues, queue, nqueues, qbase, feedback_task,
                   should_reload, results, error_found, close_count, observed, steps, outcomes, leftover>>

\* The plugin raises.
SourceFail(i) ==
    /\ TasksMayRun
    /\ i \in SourceIdx
    /\ tasks[i].st = "running"
    /\ tasks' = [tasks EXCEPT ![i].st = "failed"]
    /\ UNCHANGED <<startup_vars, parsed_args, timer, pc, gen, event_log,
                   ruleset_queues, queue, nqueues, qbase, feedback_task,
                   should_reload, results, error_found, close_count, observed, steps, outcomes, leftover>>

\* A task whose cancellation was requested unwinds at its suspension point.
TaskUnwind(i) ==
    /\ TasksMayRun
    /\ i \in DOMAIN tasks
    /\ tasks[i].st = "cancelling"
    /\ tasks' = [tasks EXCEPT ![i].st = "cancelled"]
    /\ UNCHANGED <<startup_vars, parsed_args, timer, pc, gen, event_log,
                   ruleset_queues, queue, nqueues, qbase, feedback_task,
                   should_reload, results, error_found, close_count, observed, steps, outcomes, leftover>>

\* ------------------------------------------------------------ feedback task
\* send_event_log_to_websocket: forwards one entry; ends on the "Exit" entry.
FeedbackGet ==
    /\ TasksMayRun
    /\ feedback_task # 0
    /\ tasks[feedback_task].st = "running"
    /\ event_log.items # <<>>
    /\ event_log' = [event_log EXCEPT !.items = Tail(@)]
    /\ tasks' = IF Head(event_log.items) = "Exit"
                THEN [tasks EXCEPT ![feedback_task].st = "ok"]
                ELSE tasks
    /\ UNCHANGED <<startup_vars, parsed_args, timer, pc, gen, ruleset_queues,
                   queue, nqueues, qbase, feedback_task, should_reload, results,
                   error_found, close_count, observed, steps, outcomes,
                   leftover>>

\* The websocket exchange raises.
FeedbackFail ==
    /\ TasksMayRun
    /\ feedback_task # 0
    /\ tasks[feedback_task].st = "running"
    /\ tasks' = [tasks EXCEPT ![feedback_task].st = "failed"]
    /\ UNCHANGED <<startup_vars, parsed_args, timer, pc, gen, event_log,
                   ruleset_queues, queue, nqueues, qbase, feedback_task,
                   should_reload, results, error_found, close_count, observed, steps, outcomes, leftover>>

\* ------------------------------------------------------------ run_rulesets
\* The Driver takes the event of one RuleSetQueue and evaluates the rules.
DriverGet(k) ==
    /\ pc = "driver"
    /\ k \in DOMAIN ruleset_queues
    /\ queue[ruleset_queues[k].queue].items # <<>>
    /\ queue' = [queue EXCEPT ![ruleset_queues[k].queue] = QueueGetNowait(@)]
    /\ UNCHANGED <<startup_vars, parsed_args, timer, pc, gen, event_log, tasks,
                   ruleset_queues, nqueues, qbase, feedback_task, should_reload,
                   results, error_found, close_count, observed, steps,
                   outcomes, leftover>>

\* The same, by a Driver that notes every event it takes.
DriverObserve(k) ==
    /\ pc = "driver"
    /\ k \in DOMAIN ruleset_queues
    /\ queue[ruleset_queues[k].queue].items # <<>>
    /\ observed' = Append(observed, Head(queue[ruleset_queues[k].queue].items))
    /\ queue' = [queue EXCEPT ![ruleset_queues[k].queue] = QueueGetNowait(@)]
    /\ UNCHANGED <<startup_vars, parsed_args, timer, pc, gen, event_log, tasks,
                   ruleset_queues, nqueues, qbase, feedback_task, should_reload,
                   results, error_found, close_count, steps, outcomes,
                   leftover>>

\* The engine appends an entry to the event log.
DriverLog ==
    /\ pc = "driver"
    /\ event_log.kind = "Queue"
    /\ Len(event_log.items) < MaxLog
    /\ event_log' = EventLogPut(event_log, "Action")
    /\ UNCHANGED <<startup_vars, parsed_args, timer, pc, gen, tasks,
                   ruleset_queues, queue, nqueues, qbase, feedback_task,
                   should_reload, results, error_found, close_count, observed, steps, outcomes, leftover>>

\* Line 153: should_reload = await run_rulesets(...)
DriverReturn(reload) ==
    /\ pc = "driver"
    /\ reload => gen < MaxGen
    /\ should_reload' = reload
    /\ pc' = "put_exit"
    /\ UNCHANGED <<startup_vars, parsed_args, timer, gen, event_log, tasks,
                   ruleset_queues, queue, nqueues, qbase, feedback_task, results,
                   error_found, close_count, observed, steps, outcomes,
                   leftover>>

\* Lines 153-161: run_rulesets raises.  The await stands in no try block, so
\* the exception leaves run() from this line: nothing after it is executed.
DriverRaise ==
    /\ pc = "driver"
    /\ exc' = "DriverException"
    /\ pc' = "driver_raised"
    /\ UNCHANGED <<startup_args, startup_steps, environ, parsed_args, timer,
                   gen, event_log, tasks, ruleset_queues, queue, nqueues,
                   qbase, feedback_task, should_reload, results, error_found,
                   close_count, observed, steps, outcomes, leftover>>

\* ------------------------------------------------------------ shutdown
\* Line 163: await event_log.put(dict(type="Exit")); neither kind of event
\* log suspends the put.
PutExit ==
    /\ pc = "put_exit"
    /\ event_log' = EventLogPut(event_log, "Exit")
    /\ steps' = Append(steps, "exit")
    /\ pc' = "wait"
    /\ UNCHANGED <<startup_vars, parsed_args, timer, gen, tasks, ruleset_queues,
                   queue, nqueues, qbase, feedback_task, should_reload, results,
                   error_found, close_count, observed, outcomes, leftover>>

\* Line 164: if feedback_task: ... is skipped without a feedback task.
SkipWait ==
    /\ pc = "wait"
    /\ feedback_task = 0
    /\ pc' = "cancel"
    /\ UNCHANGED <<startup_vars, parsed_args, timer, gen, event_log, tasks,
                   ruleset_queues, queue, nqueues, qbase, feedback_task,
                   should_reload, results, error_found, close_count, observed, steps, outcomes, leftover>>

\* Lines 165-167: asyncio.wait([feedback_task], timeout=...) is entered with
\* the timeout the settings hold at that moment.
EnterWait(timeout) ==
    /\ pc = "wait"
    /\ feedback_task # 0
    /\ timer' = timeout
    /\ pc' = "waiting"
    /\ UNCHANGED <<startup_vars, parsed_args, gen, event_log, tasks, ruleset_queues, queue,
                   nqueues, qbase, feedback_task, should_reload, results,
                   error_found, close_count, observed, steps, outcomes, leftover>>

\* Time passes in asyncio.wait.
WaitTick ==
    /\ pc = "waiting"
    /\ ~Done(tasks[feedback_task])
    /\ timer > 0
    /\ timer' = timer - 1
    /\ UNCHANGED <<startup_vars, parsed_args, pc, gen, event_log, tasks,
                   ruleset_queues, queue, nqueues, qbase, feedback_task,
                   should_reload, results, error_found, close_count, observed,
                   steps, outcomes, leftover>>

\* Faulty variant: await feedback_task: no timeout bounds the wait.
WaitFeedbackNoTimeout ==
    /\ pc = "waiting"
    /\ Done(tasks[feedback_task])
    /\ steps' = Append(steps, "wait")
    /\ timer' = 0
    /\ pc' = "cancel"
    /\ UNCHANGED <<startup_vars, parsed_args, gen, event_log, tasks, ruleset_queues, queue,
                   nqueues, qbase, feedback_task, should_reload, results,
                   error_found, close_count, observed, outcomes, leftover>>

\* Faulty variant: asyncio.wait_for(feedback_task, timeout): the timeout raises
\* TimeoutError out of run().
WaitFeedbackRaisesOnTimeout ==
    /\ pc = "waiting"
    /\ Done(tasks[feedback_task]) \/ timer = 0
    /\ steps' = Append(steps, "wait")
    /\ timer' = 0
    /\ pc' = IF Done(tasks[feedback_task]) THEN "cancel" ELSE "wait_raised"
    /\ exc' = IF Done(tasks[feedback_task]) THEN exc ELSE "TimeoutError"
    /\ UNCHANGED <<startup_args, startup_steps, environ, parsed_args, gen,
                   event_log, tasks, ruleset_queues, queue,
                   nqueues, qbase, feedback_task, should_reload, results,
                   error_found, close_count, observed, outcomes, leftover>>

\* asyncio.wait returns: the feedback task is done, or the timeout expired.
WaitFeedback ==
    /\ pc = "waiting"
    /\ Done(tasks[feedback_task]) \/ timer = 0
    /\ steps' = Append(steps, "wait")
    /\ timer' = 0
    /\ pc' = "cancel"
    /\ UNCHANGED <<startup_vars, parsed_args, gen, event_log, tasks, ruleset_queues, queue,
                   nqueues, qbase, feedback_task, should_reload, results,
                   error_found, close_count, observed, outcomes, leftover>>

\* Lines 169-171: for task in tasks: task.cancel()
CancelTasks ==
    /\ pc = "cancel"
    /\ tasks' = [i \in DOMAIN tasks |-> TaskCancel(tasks[i])]
    /\ steps' = Append(steps, "cancel")
    /\ pc' = "gather"
    /\ UNCHANGED <<startup_vars, parsed_args, timer, gen, event_log,
                   ruleset_queues, queue, nqueues, qbase, feedback_task,
                   should_reload, results, error_found, close_count, observed, outcomes, leftover>>

\* Faulty variant: gather without return_exceptions: the first failure of a task is
\* raised out of run() at once, the other tasks are left as they are.
GatherFirstException ==
    /\ pc = "gather"
    /\ IF \E i \in DOMAIN tasks : tasks[i].st = "failed"
       THEN /\ pc' = "raised"
            /\ outcomes' = Append(outcomes, Summary("raised"))
            /\ UNCHANGED <<tasks, results, steps>>
       ELSE /\ \A i \in DOMAIN tasks : Done(tasks[i])
            /\ results' = [i \in DOMAIN tasks |-> TaskResult(tasks[i])]
            /\ tasks' = [i \in DOMAIN tasks |-> [tasks[i] EXCEPT !.awaited = @ + 1]]
            /\ steps' = Append(steps, "gather")
            /\ pc' = "classify"
            /\ UNCHANGED outcomes
    /\ UNCHANGED <<startup_vars, parsed_args, timer, gen, event_log, ruleset_queues,
                   queue, nqueues, qbase, feedback_task, should_reload,
                   error_found, close_count, observed, leftover>>

\* Faulty variant: the join does not wait: it collects the tasks that are done.
GatherDoneOnly ==
    /\ pc = "gather"
    /\ results' = [i \in DOMAIN tasks |->
                     IF Done(tasks[i]) THEN TaskResult(tasks[i]) ELSE "None"]
    /\ tasks' = [i \in DOMAIN tasks |->
                   IF Done(tasks[i])
                   THEN [tasks[i] EXCEPT !.awaited = @ + 1]
                   ELSE tasks[i]]
    /\ steps' = Append(steps, "gather")
    /\ pc' = "classify"
    /\ UNCHANGED <<startup_vars, parsed_args, timer, gen, event_log, ruleset_queues,
                   queue, nqueues, qbase, feedback_task, should_reload,
                   error_found, close_count, observed, outcomes, leftover>>

\* Line 174: results = await asyncio.gather(*tasks, return_exceptions=True)
\* returns once every task is done, with one result per task.
Gather ==
    /\ pc = "gather"
    /\ \A i \in DOMAIN tasks : Done(tasks[i])
    /\ results' = [i \in DOMAIN tasks |-> TaskResult(tasks[i])]
    /\ tasks' = [i \in DOMAIN tasks |-> [tasks[i] EXCEPT !.awaited = @ + 1]]
    /\ steps' = Append(steps, "gather")
    /\ pc' = "classify"
    /\ UNCHANGED <<startup_vars, parsed_args, timer, gen, event_log,
                   ruleset_queues, queue, nqueues, qbase, feedback_task,
                   should_reload, error_found, close_count, observed,
                   outcomes, leftover>>

\* Lines 173, 175-182: error_found is set by every result that is a failure.
Classify ==
    /\ pc = "classify"
    /\ error_found' = (\E i \in DOMAIN results : IsFailure(results[i]))
    /\ steps' = Append(steps, "classify")
    /\ pc' = "close"
    /\ UNCHANGED <<startup_vars, parsed_args, timer, gen, event_log, tasks,
                   ruleset_queues, queue, nqueues, qbase, feedback_task,
                   should_reload, results, close_count, observed,
                   outcomes, leftover>>

\* Faulty variant: close_session() is called on the paths without a failure only.
CloseSessionUnlessFailed ==
    /\ pc = "close"
    /\ close_count' = IF error_found THEN close_count ELSE close_count + 1
    /\ steps' = Append(steps, "close")
    /\ pc' = "outcome"
    /\ UNCHANGED <<startup_vars, parsed_args, timer, gen, event_log, tasks,
                   ruleset_queues, queue, nqueues, qbase, feedback_task,
                   should_reload, results, error_found, observed,
                   outcomes, leftover>>

\* Line 185: await job_template_runner.close_session()
CloseSession ==
    /\ pc = "close"
    /\ close_count' = close_count + 1
    /\ steps' = Append(steps, "close")
    /\ pc' = "outcome"
    /\ UNCHANGED <<startup_vars, parsed_args, timer, gen, event_log, tasks,
                   ruleset_queues, queue, nqueues, qbase, feedback_task,
                   should_reload, results, error_found, observed,
                   outcomes, leftover>>

\* Lines 186-187: raise Exception("One of the source plugins failed")
Raise ==
    /\ pc = "outcome"
    /\ RunOutcome(error_found, should_reload) = "raised"
    /\ outcomes' = Append(outcomes, Summary("raised"))
    /\ steps' = Append(steps, "outcome")
    /\ pc' = "raised"
    /\ exc' = "Exception"
    /\ UNCHANGED <<startup_args, startup_steps, environ, parsed_args, timer,
                   gen, event_log, tasks,
                   ruleset_queues, queue, nqueues, qbase, feedback_task,
                   should_reload, results, error_found, close_count, observed, leftover>>

\* Lines 188-190: await run(parsed_args): a new generation, with fresh locals.
Reload ==
    /\ pc = "outcome"
    /\ RunOutcome(error_found, should_reload) = "reload"
    /\ outcomes' = Append(outcomes, Summary("reload"))
    /\ leftover' = leftover \cup
                   {[gen |-> tasks[i].gen, st |-> tasks[i].st,
                     awaited |-> tasks[i].awaited] :
                        i \in {j \in DOMAIN tasks :
                                 ~Done(tasks[j]) \/ tasks[j].awaited # 1}}
    /\ gen' = gen + 1
    /\ qbase' = nqueues
    /\ pc' = "startup"
    /\ event_log' = NullQueue
    /\ tasks' = <<>>
    /\ ruleset_queues' = <<>>
    /\ queue' = <<>>
    /\ feedback_task' = 0
    /\ should_reload' = FALSE
    /\ results' = <<>>
    /\ error_found' = FALSE
    /\ observed' = <<>>
    /\ steps' = <<>>
    /\ startup_args' = StartupArgs
    /\ startup_steps' = <<>>
    /\ UNCHANGED <<environ, exc, parsed_args, timer, nqueues, close_count>>

\* Falling off the end of run(): it returns, and so does every outer frame.
Return ==
    /\ pc = "outcome"
    /\ RunOutcome(error_found, should_reload) = "returned"
    /\ outcomes' = Append(outcomes, Summary("returned"))
    /\ steps' = Append(steps, "outcome")
    /\ pc' = "returned"
    /\ UNCHANGED <<startup_vars, parsed_args, timer, gen, event_log, tasks,
                   ruleset_queues, queue, nqueues, qbase, feedback_task,
                   should_reload, results, error_found, close_count, observed, leftover>>

\* ------------------------------------------------------------ specification
Next ==
    \/ Startup
    \/ SpawnSources
    \/ CreateFeedback
    \/ \E i \in DOMAIN tasks : SourcePut(i)
    \/ \E i \in DOMAIN tasks : SourceBlock(i)
    \/ \E i \in DOMAIN tasks : SourceResume(i)
    \/ \E i \in DOMAIN tasks : SourceExit(i)
    \/ \E i \in DOMAIN tasks : SourceFail(i)
    \/ \E i \in DOMAIN tasks : TaskUnwind(i)
    \/ FeedbackGet
    \/ FeedbackFail
    \/ \E k \in DOMAIN ruleset_queues : DriverGet(k)
    \/ DriverLog
    \/ \E reload \in BOOLEAN : DriverReturn(reload)
    \/ DriverRaise
    \/ PutExit
    \/ SkipWait
    \/ \E timeout \in 0..MaxTimeout : EnterWait(timeout)
    \/ WaitTick
    \/ WaitFeedback
    \/ CancelTasks
    \/ Gather
    \/ Classify
    \/ CloseSession
    \/ Raise
    \/ Reload
    \/ Return

Spec == Init /\ [][Next]_vars
\* The fairness of the event loop and of the clock: run() takes its next step
\* when it can, time passes in asyncio.wait, and a task whose cancellation
\* was requested unwinds.  Nothing makes a plugin produce, exit or fail, the
\* feedback task forward an entry, or the Driver return.
RunSteps ==
    \/ Startup
    \/ SpawnSources
    \/ CreateFeedback
    \/ PutExit
    \/ SkipWait
    \/ \E timeout \in 0..MaxTimeout : EnterWait(timeout)
    \/ WaitTick
    \/ WaitFeedback
    \/ CancelTasks
    \/ Gather
    \/ Classify
    \/ CloseSession
    \/ Raise
    \/ Reload
    \/ Return

Unwinds == \E i \in DOMAIN tasks : TaskUnwind(i)

Fairness == WF_vars(RunSteps) /\ WF_vars(Unwinds)

LiveShapes == {sh \in SeqsUpTo(1..MaxLiveTasks, MaxLiveTasks) : SumSeq(sh) <= MaxLiveTasks}

InitLive ==
    /\ \E sh \in LiveShapes, ws \in BOOLEAN :
          parsed_args = LifecycleArgs(sh, ws)
    /\ Fresh

SpecLive == InitLive /\ [][Next]_vars /\ Fairness

\* ------------------------------------------------------------ spawn_sources alone
SpawnShapes == SeqsUpTo(0..MaxSpawnSources, MaxSpawnRulesets)

InitSpawn ==
    /\ \E sh \in SpawnShapes, ws \in BOOLEAN :
          parsed_args = ParsedArgs(Rulebook(sh), ws)
    /\ Fresh

NextSpawn == Startup \/ SpawnSources

SpecSpawn == InitSpawn /\ [][NextSpawn]_vars

\* ------------------------------------------------------------ startup alone
\* One ruleset with one source and one rule per action; every configuration
\* of inventory, controller, vault and mode.  The run goes as far as the call
\* of the Driver.
ActionSeqs ==
    SeqsUpTo({RuleAction(k, a) : k \in ActionKinds, a \in {"plain", "vault_bad"}},
             MaxActions)

RulesOf(actions) == [k \in DOMAIN actions |-> Rule(k, <<actions[k]>>)]

Modes ==
    {[worker |-> FALSE, websocket_url |-> FALSE, id |-> ""],
     [worker |-> TRUE, websocket_url |-> TRUE, id |-> "worker-1"]}

InitStartup ==
    /\ \E actions \in ActionSeqs, mode \in Modes,
          inventory \in {"", "inventory.yml", "missing.yml"},
          url \in {"", "not a url", "https://controller"},
          token \in {"", "token"},
          vaulted \in BOOLEAN :
          \* a rulebook without a vaulted string has no vaulted argument
          /\ vaulted \/ \A k \in DOMAIN actions : actions[k].action_args = "plain"
          /\ parsed_args =
             [rulesets |-> WithRules(Rulebook(<<1>>), RulesOf(actions)),
              websocket_url |-> mode.websocket_url,
              worker |-> mode.worker,
              id |-> mode.id,
              inventory |-> inventory,
              controller_url |-> url,
              controller_token |-> token,
              vaulted |-> vaulted]
    /\ Fresh

NextStartup == Startup \/ SpawnSources \/ CreateFeedback

SpecStartup == InitStartup /\ [][NextStartup]_vars

\* ------------------------------------------------------------ the A/B scenario
\* One ruleset with two sources: A produces 1, 2, 3 and B produces 4, 5; the
\* Driver keeps draining the queue and nothing ends the run.
EventsA == <<1, 2, 3>>

EventsB == <<4, 5>>

InitAB ==
    /\ parsed_args =
          ParsedArgs(<<[name |-> 1,
                        sources |-> <<Source("A", EventsA, FALSE),
                                      Source("B", EventsB, FALSE)>>,
                        rules |-> <<>>]>>,
                     FALSE)
    /\ Fresh

NextAB ==
    \/ Startup
    \/ SpawnSources
    \/ CreateFeedback
    \/ \E i \in DOMAIN tasks : SourcePut(i)
    \/ \E i \in DOMAIN tasks : SourceBlock(i)
    \/ \E i \in DOMAIN tasks : SourceResume(i)
    \/ \E k \in DOMAIN ruleset_queues : DriverObserve(k)

\* The event loop runs whatever is ready: a step is taken while one can be.
SpecAB == InitAB /\ [][NextAB]_vars /\ WF_vars(NextAB)

\* ------------------------------------------------------------ helpers of the properties
Range(f) == {f[x] : x \in DOMAIN f}

IsPrefix(s, t) == Len(s) <= Len(t) /\ \A i \in 1..Len(s) : s[i] = t[i]

RECURSIVE Filter(_, _)
Filter(s, S) ==
    IF s = <<>> THEN <<>>
    ELSE IF Head(s) \in S THEN <<Head(s)>> \o Filter(Tail(s), S)
    ELSE Filter(Tail(s), S)

Stepped(x) == x \in Range(steps)

Failed(i) == tasks[i].st = "failed"

Cancelled(i) == tasks[i].st = "cancelled"
NumSources == SumSeq([r \in DOMAIN parsed_args.rulesets |->
                        Len(parsed_args.rulesets[r].sources)])

\* The shutdown steps of a generation, in the order of lines 163-190.
ShutdownOrder ==
    <<"exit">> \o (IF feedback_task # 0 THEN <<"wait">> ELSE <<>>) \o
    <<"cancel", "gather", "classify", "close", "outcome">>

C2_EveryTaskJoinedOnce ==
    /\ \A i \in DOMAIN tasks :
          tasks[i].awaited = IF Stepped("gather") THEN 1 ELSE 0
    /\ Stepped("gather") =>
          /\ DOMAIN results = DOMAIN tasks
          /\ \A i \in DOMAIN tasks :
                Done(tasks[i]) /\ results[i] = TaskResult(tasks[i])
    /\ pc \in {"raised", "returned"} => Stepped("gather")
    /\ pc \notin {"startup", "startup_failed", "spawn", "feedback"} =>
          Len(tasks) = NumSources + (IF parsed_args.websocket_url THEN 1 ELSE 0)
    /\ \A g \in DOMAIN outcomes : outcomes[g].joined = outcomes[g].spawned

\* A run that raised after two of its tasks failed, each joined once.
C2_Witness ==
    /\ pc = "raised"
    /\ Cardinality({i \in DOMAIN tasks : Failed(i)}) >= 2
    /\ \A i \in DOMAIN tasks : tasks[i].awaited = 1

\* ------------------------------------------------------------ C3
C3_Capacity == \A q \in DOMAIN queue : Len(queue[q].items) <= 1

C3_Steps ==
    /\ \A q \in DOMAIN queue \cap DOMAIN queue' :
          \/ queue'[q].items = queue[q].items
          \/ queue[q].items # <<>> /\ queue'[q].items = Tail(queue[q].items)
          \/ queue[q].items = <<>> /\ Len(queue'[q].items) = 1
    /\ \A i \in DOMAIN tasks \cap DOMAIN tasks' :
          /\ (tasks[i].st = "blocked" /\ queue[tasks[i].queue].items # <<>>) =>
                tasks'[i].st \in {"blocked", "cancelling"}
          /\ (tasks[i].st = "blocked" /\ tasks'[i].st = "running") =>
                queue'[tasks[i].queue].items =
                    Append(queue[tasks[i].queue].items, NextEvent(tasks[i]))

\* C3: a RuleSetQueue never holds more than one event; a queue gains an event
\* only when it was empty and loses one only at its head (nothing is
\* overwritten or discarded); a task suspended in put on a full queue stays
\* suspended (or is cancelled) while the queue is full, and when its put
\* completes its event is in the queue.
C3_Backpressure == [](C3_Capacity) /\ [][C3_Steps]_vars

\* A source suspended in put on a full queue while the Driver runs.
C3_Witness ==
    /\ pc = "driver"
    /\ \E i \in SourceIdx :
          tasks[i].st = "blocked" /\ Len(queue[tasks[i].queue].items) = 1

\* ------------------------------------------------------------ C4
C4_OrderKept ==
    /\ IsPrefix(Filter(observed, Range(EventsA)), EventsA)
    /\ IsPrefix(Filter(observed, Range(EventsB)), EventsB)
    /\ Range(observed) \subseteq Range(EventsA) \cup Range(EventsB)
    /\ Cardinality(Range(observed)) = Len(observed)

C4_AllObserved ==
    /\ Len(observed) = Len(EventsA) + Len(EventsB)
    /\ Range(observed) = Range(EventsA) \cup Range(EventsB)

\* C4: in the A/B scenario the Driver never observes an event twice, sees
\* A's events in the order 1, 2, 3 and B's in the order 4, 5, and in every
\* run whose startup succeeds ends up having observed all five.
C4_ABScenario ==
    [](C4_OrderKept) /\ <>[](pc = "startup_failed" \/ C4_AllObserved)

\* One of the interleavings: B's events between A's.
C4_Witness == observed = <<4, 1, 5, 2, 3>>

\* ------------------------------------------------------------ C5
\* C5: spawn_sources returns one (ruleset, queue) pair per ruleset, in input
\* order, creates exactly those queues, all distinct, and binds every source
\* task to the queue of its own ruleset.
C5_OneQueuePerRuleset ==
    pc = "feedback" =>
      /\ Len(ruleset_queues) = Len(parsed_args.rulesets)
      /\ \A r \in DOMAIN ruleset_queues : ruleset_queues[r].ruleset = r
      /\ \A r1, r2 \in DOMAIN ruleset_queues :
            r1 # r2 => ruleset_queues[r1].queue # ruleset_queues[r2].queue
      /\ DOMAIN queue = {ruleset_queues[r].queue : r \in DOMAIN ruleset_queues}
      /\ \A i \in DOMAIN tasks :
            /\ tasks[i].ruleset \in DOMAIN ruleset_queues
            /\ tasks[i].queue = ruleset_queues[tasks[i].ruleset].queue

\* Spawned: a ruleset without sources beside one with several.
C5_Witness ==
    /\ pc = "feedback"
    /\ \E r1, r2 \in DOMAIN parsed_args.rulesets :
          /\ Len(parsed_args.rulesets[r1].sources) = 0
          /\ Len(parsed_args.rulesets[r2].sources) >= 2
    /\ Len(tasks) >= 2

\* ------------------------------------------------------------ C6
\* C6: spawn_sources returns as many task handles as there are source
\* declarations, and each declaration is run by exactly one of them.
C6_OneTaskPerSource ==
    pc = "feedback" =>
      /\ Len(tasks) = NumSources
      /\ \A r \in DOMAIN parsed_args.rulesets :
            \A s \in DOMAIN parsed_args.rulesets[r].sources :
               Cardinality({i \in DOMAIN tasks :
                              /\ tasks[i].kind = "source"
                              /\ tasks[i].ruleset = r
                              /\ tasks[i].source = s}) = 1

\* Spawned: two rulesets with several sources each.
C6_Witness ==
    /\ pc = "feedback"
    /\ Len(tasks) >= 4
    /\ \E r1, r2 \in DOMAIN parsed_args.rulesets :
          /\ r1 # r2
          /\ Len(parsed_args.rulesets[r1].sources) >= 2
          /\ Len(parsed_args.rulesets[r2].sources) >= 2

\* ------------------------------------------------------------ C7
\* C7: when a generation begins, every task of the generations before it
\* has terminated and been joined (none is left over, and none exists until
\* the new generation spawns its own); the tasks and the Driver of a
\* generation use only queues created in that generation.
C7_ColdRestart ==
    /\ leftover = {}
    /\ \A g \in DOMAIN outcomes :
          outcomes[g].outcome = "reload" => outcomes[g].joined = outcomes[g].spawned
    /\ pc \in {"startup", "spawn"} => tasks = <<>> /\ queue = <<>>
    /\ \A i \in DOMAIN tasks :
          /\ tasks[i].gen = gen
          /\ tasks[i].kind = "source" => tasks[i].queue \in (qbase + 1)..nqueues
    /\ \A k \in DOMAIN ruleset_queues :
          ruleset_queues[k].queue \in (qbase + 1)..nqueues
    /\ DOMAIN queue \subseteq (qbase + 1)..nqueues
    /\ gen > 1 /\ parsed_args.rulesets # <<>> => qbase > 0

\* The second generation running its own tasks.
C7_Witness ==
    /\ gen = 2
    /\ pc = "driver"
    /\ Len(tasks) >= 2
    /\ \E i \in SourceIdx : tasks[i].st = "blocked"

\* ------------------------------------------------------------ C8
\* C8: the shutdown steps happen in the order exit sentinel, feedback wait
\* (when there is a feedback task), cancel, join, classify, close session,
\* outcome; none happens before the Driver returned; a task is cancelled
\* only after the sentinel was pushed, and none is left running by the cancel
\* step; results exist only after the join and error_found is set only by
\* the classification; the session has been closed once per generation
\* before the generation raises, returns or reloads.
C8_ShutdownOrder ==
    /\ IsPrefix(steps, ShutdownOrder)
    /\ pc \in {"startup", "spawn", "feedback", "driver", "put_exit"} => steps = <<>>
    /\ (\E i \in DOMAIN tasks : tasks[i].st \in {"cancelling", "cancelled"}) =>
          Stepped("exit") /\ Stepped("cancel")
    /\ Stepped("cancel") => \A i \in DOMAIN tasks : tasks[i].st \notin {"running", "blocked"}
    /\ ~Stepped("gather") => results = <<>>
    /\ Stepped("gather") => \A i \in DOMAIN tasks : Done(tasks[i])
    /\ ~Stepped("classify") => ~error_found
    /\ close_count = (gen - 1) + (IF Stepped("close") THEN 1 ELSE 0)
    /\ pc \in {"raised", "returned"} => steps = ShutdownOrder
    /\ \A g \in DOMAIN outcomes : outcomes[g].closed = g

\* A run with a feedback task that went through every step and raised.
C8_Witness ==
    /\ pc = "raised"
    /\ feedback_task # 0
    /\ steps = <<"exit", "wait", "cancel", "gather", "classify", "close", "outcome">>

\* ------------------------------------------------------------ C9
\* C9: a generation whose results marked it failed raises, also when the
\* Driver asked for a reload; otherwise it reloads when the Driver asked for
\* it; otherwise it returns.  Every generation has exactly one outcome, and
\* only a reload is followed by another generation.
C9_FailureBeforeReload ==
    /\ \A g \in DOMAIN outcomes :
          /\ outcomes[g].error_found => outcomes[g].outcome = "raised"
          /\ (~outcomes[g].error_found /\ outcomes[g].should_reload = TRUE) =>
                outcomes[g].outcome = "reload"
          /\ (~outcomes[g].error_found /\ outcomes[g].should_reload # TRUE) =>
                outcomes[g].outcome = "returned"
          /\ g < gen => outcomes[g].outcome = "reload"
    /\ Len(outcomes) = IF pc \in {"raised", "returned"} THEN gen ELSE gen - 1
    /\ pc = "raised" => outcomes[gen].outcome = "raised"
    /\ pc = "returned" => outcomes[gen].outcome = "returned"

\* A failed run whose Driver had asked for a reload.
C9_Witness ==
    /\ pc = "raised"
    /\ error_found
    /\ should_reload = TRUE

\* ------------------------------------------------------------ C10
\* C10: once the Driver has returned, the run reaches its outcome step with
\* the session closed, under the fairness of SpecLive alone: whatever the
\* timeout, and whether or not the feedback task ever takes the sentinel.
C10_ShutdownTerminates ==
    (pc = "put_exit") ~> (pc = "outcome" /\ Stepped("close"))

\* The outcome step reached with the sentinel never taken from the log.
C10_Witness ==
    /\ pc = "outcome"
    /\ feedback_task # 0
    /\ Cancelled(feedback_task)
    /\ "Exit" \in Range(event_log.items)

\* ------------------------------------------------------------ C11
StartupExceptions ==
    {"WebSocketExchangeException", "RulebookNotFoundException",
     "InventoryNeededException", "InventoryNotFound",
     "ControllerNeededException", "VaultDecryptException",
     "InvalidUrlException", "ControllerApiException"}

\* C11: a startup failure leaves run() before spawn_sources and before the
\* feedback task is created: a generation that ends with a startup failure
\* has created no task and no queue, and a generation that has a task made
\* every startup call without an exception.
C11_NoTaskOnStartupFailure ==
    /\ pc = "startup_failed" =>
          /\ exc \in StartupExceptions
          /\ tasks = <<>>
          /\ feedback_task = 0
          /\ ruleset_queues = <<>>
          /\ nqueues = qbase
    /\ (tasks # <<>> \/ pc \in {"spawn", "feedback", "driver"}) =>
          /\ exc = ""
          /\ pc # "startup_failed"

\* The controller is configured and needed, and its probe fails.
C11_Witness ==
    /\ pc = "startup_failed"
    /\ exc = "ControllerApiException"
    /\ Len(parsed_args.rulesets[1].sources) > 0

\* ------------------------------------------------------------ C12, C13
\* The rules were loaded and validate_actions has been called on them.
Validated == "validate_actions" \in Range(startup_steps)

LoadedActions == AllActions(startup_args.rulesets)

NeedsInventory(a) == a.action \in {"run_playbook", "run_module"}

NeedsController(a) == a.action \in {"run_job_template", "run_workflow_template"}

InventoryMissing == startup_args.inventory = ""

InventoryAbsent ==
    startup_args.inventory # "" /\ startup_args.inventory \notin ExistingPaths

ControllerMissing ==
    startup_args.controller_url = "" /\ startup_args.controller_token = ""

\* The classification the checks of action a give on their own, "" for none.
OwnFailure(a) ==
    IF NeedsInventory(a) /\ InventoryMissing THEN "InventoryNeededException"
    ELSE IF NeedsInventory(a) /\ InventoryAbsent THEN "InventoryNotFound"
    ELSE IF NeedsController(a) /\ ControllerMissing THEN "ControllerNeededException"
    ELSE IF startup_args.check_vault /\ a.action_args = "vault_bad"
    THEN "VaultDecryptException"
    ELSE ""

\* The actions visited before the first one that satisfies P pass their checks.
NoneFailsBeforeFirst(P(_)) ==
    \A k \in DOMAIN LoadedActions :
        (P(LoadedActions[k]) /\ \A j \in 1..(k - 1) : ~P(LoadedActions[j])) =>
            \A j \in 1..(k - 1) : OwnFailure(LoadedActions[j]) = ""

\* C12 as stated: an action that needs the inventory with no inventory
\* path gives the inventory-missing classification, and with a configured
\* path that does not exist the inventory-not-found classification,
\* whatever the other actions are.
C12_Original ==
    (Validated /\ \E k \in DOMAIN LoadedActions : NeedsInventory(LoadedActions[k])) =>
        /\ InventoryMissing => exc = "InventoryNeededException"
        /\ InventoryAbsent => exc = "InventoryNotFound"

\* C12 (amended): with an action that needs the inventory and an inventory
\* path that is missing or absent on disk, startup validation fails and no
\* task is spawned; the classification is the inventory one (missing, resp.
\* not found) when no action visited before the first inventory action
\* fails a check of its own, and otherwise the classification of the first
\* action that fails (controller-missing or undecryptable arguments).
C12_InventoryClassification ==
    (Validated /\ \E k \in DOMAIN LoadedActions : NeedsInventory(LoadedActions[k])
               /\ (InventoryMissing \/ InventoryAbsent)) =>
        /\ pc = "startup_failed"
        /\ tasks = <<>>
        /\ startup_steps[Len(startup_steps)] = "validate_actions"
        /\ NoneFailsBeforeFirst(NeedsInventory) =>
              exc = IF InventoryMissing THEN "InventoryNeededException"
                                        ELSE "InventoryNotFound"
        /\ ~NoneFailsBeforeFirst(NeedsInventory) =>
              exc \in {"ControllerNeededException", "VaultDecryptException"}

\* The inventory-missing classification though a controller action without
\* controller follows the inventory action.
C12_Witness ==
    /\ pc = "startup_failed"
    /\ exc = "InventoryNeededException"
    /\ Len(LoadedActions) = 2
    /\ NeedsInventory(LoadedActions[1])
    /\ NeedsController(LoadedActions[2])
    /\ ControllerMissing

\* C13 as stated: an action that needs the controller with neither URL nor
\* token gives the controller-missing classification, whatever the other
\* actions are.
C13_Original ==
    (Validated /\ \E k \in DOMAIN LoadedActions : NeedsController(LoadedActions[k])
               /\ ControllerMissing) =>
        exc = "ControllerNeededException"

\* C13 (amended): with an action that needs the controller and neither URL
\* nor token, startup validation fails and no task is spawned; the
\* classification is controller-missing when no action visited before the
\* first controller action fails a check of its own, and otherwise the
\* classification of the first action that fails (inventory missing or not
\* found, or undecryptable arguments).
C13_ControllerClassification ==
    (Validated /\ \E k \in DOMAIN LoadedActions : NeedsController(LoadedActions[k])
               /\ ControllerMissing) =>
        /\ pc = "startup_failed"
        /\ tasks = <<>>
        /\ startup_steps[Len(startup_steps)] = "validate_actions"
        /\ NoneFailsBeforeFirst(NeedsController) =>
              exc = "ControllerNeededException"
        /\ ~NoneFailsBeforeFirst(NeedsController) =>
              exc \in {"InventoryNeededException", "InventoryNotFound",
                       "VaultDecryptException"}

\* The controller-missing classification of a controller action whose own
\* arguments are undecryptable, after an inventory action that passes.
C13_Witness ==
    /\ pc = "startup_failed"
    /\ exc = "ControllerNeededException"
    /\ Len(LoadedActions) = 2
    /\ NeedsInventory(LoadedActions[1])
    /\ NeedsController(LoadedActions[2])
    /\ LoadedActions[2].action_args = "vault_bad"
    /\ startup_args.check_vault

\* ------------------------------------------------------------ C14
ControllerIncomplete ==
    startup_args.controller_url = "" \/ startup_args.controller_token = ""

\* C14: with an action that needs the controller, a run whose controller URL
\* or controller token is missing (also URL only, also token only) never
\* spawns a task: its startup fails, and with the controller-missing
\* classification when no action visited before the first controller action
\* fails a check of its own.
C14_BothNeeded ==
    (Validated /\ \E k \in DOMAIN LoadedActions : NeedsController(LoadedActions[k])
               /\ ControllerIncomplete) =>
        /\ pc = "startup_failed"
        /\ tasks = <<>>
        /\ NoneFailsBeforeFirst(NeedsController) =>
              exc = "ControllerNeededException"

\* ------------------------------------------------------------ C15
\* The startup calls before the controller check raised nothing.
Exported == "export_env" \in Range(startup_steps)

\* What the controller check of lines 313-331 comes to for a configured URL:
\* validate_url is called; an invalid URL ends the startup with the
\* invalid-url classification; a valid one is followed by get_config, the
\* startup fails exactly when the probe does, and a task exists only after
\* both.
UrlChecked ==
    /\ "validate_url" \in Range(startup_steps)
    /\ startup_args.controller_url \notin ValidUrls =>
          /\ pc = "startup_failed"
          /\ exc = "InvalidUrlException"
          /\ "get_config" \notin Range(startup_steps)
          /\ tasks = <<>>
    /\ startup_args.controller_url \in ValidUrls =>
          /\ "get_config" \in Range(startup_steps)
          /\ pc = "startup_failed" <=> exc = "ControllerApiException"
          /\ pc = "startup_failed" => tasks = <<>>

\* C15 as stated: every startup that comes to the controller check with a
\* controller URL configured checks the URL and probes the controller
\* before a task is spawned, whatever actions the rules contain.
C15_Original ==
    (Exported /\ startup_args.controller_url # "") => UrlChecked

\* C15 (amended): a startup that comes to the controller check with a
\* controller URL configured and an action that needs the controller among
\* the loaded rules checks the URL and probes the controller before a task
\* is spawned.
C15_UrlCheckedForControllerActions ==
    (Exported /\ startup_args.controller_url # ""
              /\ \E k \in DOMAIN LoadedActions : NeedsController(LoadedActions[k])) =>
        UrlChecked

\* An invalid URL found by the check.
C15_Witness ==
    /\ pc = "startup_failed"
    /\ exc = "InvalidUrlException"
    /\ \E k \in DOMAIN LoadedActions : NeedsController(LoadedActions[k])

\* ------------------------------------------------------------ C16
\* The feedback task was not finished when the cancel step came.
Abandoned ==
    /\ feedback_task # 0
    /\ tasks[feedback_task].st \in {"cancelling", "cancelled"}

\* An abandoned publisher ends cancelled, its result is a cancellation, and
\* a run none of whose tasks failed is not marked failed and does not raise.
C16_AbandonedIsNoError ==
    /\ Abandoned => Stepped("wait") /\ Stepped("cancel")
    /\ (Abandoned /\ Stepped("gather")) =>
          /\ Cancelled(feedback_task)
          /\ results[feedback_task] = "CancelledError"
    /\ (Abandoned /\ \A i \in DOMAIN tasks : ~Failed(i)) =>
          /\ ~error_found
          /\ exc = ""
          /\ pc # "raised"

\* The wait that times out goes on to the cancel step and raises nothing;
\* once the publisher is abandoned no entry leaves the event log, and the
\* next generation starts with a new, empty log.
C16_Steps ==
    /\ (pc = "waiting" /\ pc' # "waiting" /\ ~Done(tasks[feedback_task])) =>
          /\ timer = 0
          /\ pc' = "cancel"
          /\ exc' = ""
          /\ ~error_found'
          /\ tasks' = tasks
    /\ Abandoned =>
          \/ event_log' = event_log
          \/ gen' = gen + 1 /\ event_log'.items = <<>>

\* C16: a feedback task still running when the bounded wait times out is
\* abandoned without error: the timeout raises nothing, the task is
\* cancelled with the others, the run is marked failed only by a task that
\* failed, and the entries left in the event log are never forwarded.
C16_FeedbackTimeoutAbandoned == [](C16_AbandonedIsNoError) /\ [][C16_Steps]_vars

\* A run that returned with the publisher cancelled and entries, the
\* sentinel among them, left in the event log.
C16_Witness ==
    /\ pc = "returned"
    /\ Abandoned
    /\ Len(event_log.items) >= 2
    /\ "Exit" \in Range(event_log.items)

\* ------------------------------------------------------------ C17
\* C17: os.environ is written only by the startup of a generation, which
\* runs while no task exists: the generation has spawned none yet, and every
\* task of the generations before it has terminated and been awaited.  A
\* generation that has a task has completed its export.
C17_ExportWhileNoTaskRuns ==
    /\ pc = "startup" =>
          /\ environ < gen
          /\ tasks = <<>>
          /\ feedback_task = 0
          /\ leftover = {}
          /\ \A g \in DOMAIN outcomes : outcomes[g].joined = outcomes[g].spawned
    /\ environ <= gen
    /\ environ = gen => pc # "startup" /\ Exported
    /\ (tasks # <<>> \/ pc \in {"spawn", "feedback", "driver"}) => environ = gen

\* The second generation runs its tasks on the environment it exported.
C17_Witness ==
    /\ gen = 2
    /\ environ = 2
    /\ pc = "driver"
    /\ \E i \in DOMAIN tasks : tasks[i].st = "running"
    /\ outcomes[1].spawned > 0

\* ------------------------------------------------------------ C18
\* run() has been left: by a return, or by an exception that no frame of an
\* earlier generation catches.
Left == pc \in {"returned", "raised", "startup_failed", "driver_raised"}

\* A generation begins only by the reload of the one before it, which had
\* no failure and whose Driver asked for the reload; it begins at the
\* startup, with the same arguments and nothing of the former startup.
C18_Steps ==
    /\ parsed_args' = parsed_args
    /\ gen' # gen =>
          /\ pc = "outcome" /\ ~error_found /\ should_reload = TRUE
          /\ gen' = gen + 1
          /\ pc' = "startup"
          /\ startup_args' = StartupArgs /\ startup_steps' = <<>>
    /\ (pc = "outcome" /\ ~error_found /\ should_reload = TRUE) =>
          gen' = gen + 1
    /\ Left => UNCHANGED vars

\* The way run() is left is the outcome of the last generation: every
\* generation before it reloaded, a return leaves no exception, a failure of
\* the last generation is the exception of the process.
C18_LastGenerationDecides ==
    /\ \A g \in DOMAIN outcomes : g < gen => outcomes[g].outcome = "reload"
    /\ Len(outcomes) >= gen - 1
    /\ pc = "returned" => exc = "" /\ outcomes[gen].outcome = "returned"
    /\ pc = "raised" => exc = "Exception" /\ outcomes[gen].outcome = "raised"
    /\ pc = "startup_failed" => exc \in StartupExceptions
    /\ ~Left => exc = ""

C19_EveryExitCleansUp ==
    /\ (Left /\ tasks # <<>>) =>
          /\ \A i \in DOMAIN tasks : Done(tasks[i]) /\ tasks[i].awaited = 1
          /\ Stepped("close")
          /\ close_count = gen
    /\ leftover = {}
    /\ \A g \in DOMAIN outcomes :
          outcomes[g].joined = outcomes[g].spawned /\ outcomes[g].closed = g

\* ------------------------------------------------------------ C20
\* A finished task keeps its outcome through every step of its generation;
\* a cancellation is requested only by the cancel step, of the tasks not
\* finished then and of all of them, and only a task whose cancellation was
\* requested ends cancelled.
C20_Steps ==
    \A i \in DOMAIN tasks :
        /\ (Done(tasks[i]) /\ gen' = gen) =>
              i \in DOMAIN tasks' /\ tasks'[i].st = tasks[i].st
        /\ i \in DOMAIN tasks' =>
              /\ (tasks'[i].st = "cancelling" /\ tasks[i].st # "cancelling") =>
                    pc = "cancel" /\ ~Done(tasks[i])
              /\ (tasks'[i].st = "cancelled" /\ tasks[i].st # "cancelled") =>
                    tasks[i].st = "cancelling"
        /\ (pc = "cancel" /\ pc' # "cancel" /\ ~Done(tasks[i])) =>
              tasks'[i].st = "cancelling"

\* The results and the failure flag follow the outcomes the tasks had: a
\* failed task gives an exception and marks the run failed, a task that
\* exited gives neither a failure nor a cancellation.
C20_Results ==
    /\ Stepped("gather") =>
          \A i \in DOMAIN tasks :
              /\ Failed(i) <=> results[i] = "Exception"
              /\ tasks[i].st = "ok" <=> results[i] = "None"
              /\ Cancelled(i) <=> results[i] = "CancelledError"
    /\ Stepped("classify") => (error_found <=> \E i \in DOMAIN tasks : Failed(i))
    /\ (Stepped("outcome") /\ \E i \in DOMAIN tasks : Failed(i)) => pc = "raised"

\* C20: the cancel step leaves the outcome of a task that had terminated as
\* it was: a task that failed before the cancel step is classified as failed
\* and marks the run failed, a task that exited before it counts as neither
\* failed nor cancelled, and only tasks not finished at the cancel step end
\* cancelled.
C20_CancelKeepsOutcomes == [](C20_Results) /\ [][C20_Steps]_vars

\* A run that raised: one source had failed and one had exited before the
\* cancel step, the feedback task was cancelled by it.
C20_Witness ==
    /\ pc = "raised"
    /\ \E i \in SourceIdx : Failed(i)
    /\ \E i \in SourceIdx : tasks[i].st = "ok"
    /\ feedback_task # 0 /\ Cancelled(feedback_task)
====
